---- MODULE Spec2Model ----
(***************************************************************************)
(* Model of the animation sequencer of src/app.py: the generator           *)
(* linear_search_animated and the pure helpers it calls (format_steps,     *)
(* progress_html, draw_frame).  One behaviour of the model is one run of   *)
(* the generator; every action is one resumption of the generator, from    *)
(* the yield it is suspended at to the next yield (or to its return).      *)
(* Python indices are 0-based and kept so: arr[i] of the code is           *)
(* arr[i + 1] here.                                                        *)
(* Spec is one run; PairSpec is a run pulled alone followed by two more     *)
(* generators pulled in any order; ProgressSpec is progress_html called on *)
(* its own.                                                                *)
(***************************************************************************)
EXTENDS Integers, Sequences, FiniteSets

\* ------------------------------------------------------------------ bounds
\* Longest list the model feeds to the generator.
MaxLen == 3
\* Lists and targets hold values in 1..MaxVal.
MaxVal == 3
\* Largest total that progress_html is called with on its own.
ProgMax == 50

\* ------------------------------------------------------- program constants
\* speed_slider = gr.Slider(1, 10, ...)
MinSpeed == 1
MaxSpeed == 10
\* "-1 means none" for current_index and found_index.
NoIndex == -1
\* Mutant of NumPulses: one pulse short.
NumPulses_Short == 6 - 1

\* for p in range(6): the number of 'found' pulses.
NumPulses == 6
\* Python's None for the target (gr.Number left empty); list values are >= 1.
None == 0

VARIABLES
    parses,           \* whether eval(arr) of the list text succeeds
    arr,              \* the list being searched (after eval)
    target,           \* the target, or None
    speed,            \* the speed dial
    pc,               \* the yield the generator is suspended at
    n,                \* local n = len(arr)
    frames_per_step,  \* local frames_per_step
    i,                \* loop index of "for i, val in enumerate(arr)"
    f,                \* loop index of "for f in range(frames_per_step)"
    p,                \* loop index of "for p in range(6)"
    checked,          \* local set "checked"
    frames,           \* every tuple yielded so far, in order
    prog,             \* progress_html on its own: the total and the calls made
    active,           \* which generator the variables above belong to
    parked,           \* the variables of the other, suspended, generator
    ref               \* the frames of the run that was pulled alone

\* The arguments, locals and output of the generator being pulled.
gen == <<parses, arr, target, speed, pc, n, frames_per_step, i, f, p, checked, frames>>

\* What the host holds besides the generator being pulled.
host == <<prog, active, parked, ref>>

vars == <<gen, host>>

Values == 1..MaxVal

Lists == UNION {[1..k -> Values] : k \in 0..MaxLen}

Max(a, b) == IF a >= b THEN a ELSE b

Abs(a) == IF a >= 0 THEN a ELSE -a

\* Mutant of Contains: "if not arr" tested instead of membership.
Contains_Mut(s, x) == Len(s) > 0

\* Python's "x in arr" for a list (the negation of "target not in arr").
Contains(s, x) == \E k \in 1..Len(s) : s[k] = x

\* Mutant of Matches: ">=" typed for "==".
Matches_Mut(val, t) == val >= t

\* Mutant of Matches: ">" typed for "==".
Matches_Strict(val, t) == val > t

\* "val == target"
Matches(val, t) == val = t

\* Mutant of AddChecked: "checked = {i}" replaces the set.
AddChecked_Replace(chk, ii) == {ii}

\* Mutant of AddChecked: the add is left out.
AddChecked_Skip(chk, ii) == chk

\* "checked.add(i)": the set after the call.
AddChecked(chk, ii) == chk \cup {ii}

\* ------------------------------------------------------------ pure helpers

\* format_steps(active_step): the class of each of the five step lines.
format_steps(active_step) ==
    [k \in 1..5 |-> IF active_step = k THEN "active" ELSE ""]

\* The pairs (done, total), 0 <= done <= total <= 130, for which the float
\* product (done / total) * 100 falls just below the exact integer value, so
\* that int() gives one less than the exact quotient (29 / 50 * 100 is
\* 57.99999999999999).
FloatShort == {<<29, 50>>, <<29, 100>>, <<57, 100>>, <<58, 100>>}

\* Mutant of progress_html: int() applied to the quotient, before the
\* multiplication by 100.
progress_html_IntFirst(done, total) ==
    [pct |-> (done \div Max(1, total)) * 100, done |-> done, total |-> total]

\* progress_html(done, total): pct = int((done / max(1, total)) * 100); the
\* snippet shows pct, done and total.  done and total are non-negative, so
\* int() truncation is the floor; the float product is the exact quotient
\* times 100 or, for the pairs of FloatShort, just below it.
progress_html(done, total) ==
    [pct   |-> ((done * 100) \div Max(1, total))
                 - (IF <<done, total>> \in FloatShort THEN 1 ELSE 0),
     done  |-> done,
     total |-> total]

\* A real number as an (unreduced) fraction.
Frac(num, den) == [num |-> num, den |-> den]

\* t = (f + 1) / frames_per_step; ease = t * t * (3 - 2 * t); glow = 0.5 * ease
ApproachGlow(ff, fps) ==
    Frac((ff + 1) * (ff + 1) * (3 * fps - 2 * (ff + 1)), 2 * fps * fps * fps)

\* pulse = 0.6 + 0.9 * (1 - abs((p / 5) - 0.5) * 2)
Pulse(pp) == Frac(30 + 9 * (5 - Abs(2 * pp - 5)), 50)

\* The base colour draw_frame chooses for bar k (0-based).
BarColor(k, current_index, found_index, checked_indices) ==
    IF k = found_index THEN "FOUND"
    ELSE IF k = current_index THEN "CURRENT"
    ELSE IF k \in checked_indices THEN "CHECKED"
    ELSE "UNCHECKED"

\* draw_frame(arr, current_index, found_index, checked_indices, glow_strength):
\* the rendered frame, as the data that determines the picture.  The set is
\* read while drawing, so the frame holds its value at the time of the call.
draw_frame(a, current_index, found_index, checked_indices, glow_strength) ==
    [current_index   |-> current_index,
     found_index     |-> found_index,
     checked_indices |-> checked_indices,
     glow_strength   |-> glow_strength,
     bars            |-> [k \in 1..Len(a) |->
                            BarColor(k - 1, current_index, found_index, checked_indices)]]

\* Mutant of FramesPerStep: round() to the nearest integer instead of int().
FramesPerStep_Round(s) == Max(1, (125 - 11 * (s - 1)) \div 10)

\* frames_per_step = max(1, int(12 - (speed - 1) * 1.1)); the argument of
\* int() is positive for speed in 1..10, so int() is the floor.
FramesPerStep(s) == Max(1, (120 - 11 * (s - 1)) \div 10)

\* A status string: its format and the values formatted into it (the
\* source's ellipsis character is written "..." here).
Status(fmt, args) == [fmt |-> fmt, args |-> args]

\* One yielded tuple (status_text, image, step_html, progress_html); the
\* image is <<>> for None and <<picture>> otherwise.
Frame(status, img, steps, progress) ==
    [status |-> status, img |-> img, steps |-> steps, progress |-> progress]

Yield(fr) == frames' = Append(frames, fr)

\* -------------------------------------------------------------------- Init
\* progress_html not called on its own; no second generator.
NoCalls == [total |-> 0, calls |-> <<>>]

NoRun == [pc |-> "none"]

Init ==
    /\ parses \in BOOLEAN
    /\ arr \in (IF parses THEN Lists ELSE {<<>>})
    /\ target \in Values \cup {None}
    /\ speed \in MinSpeed..MaxSpeed
    /\ pc = "begin"
    /\ n = 0
    /\ frames_per_step = 0
    /\ i = 0
    /\ f = 0
    /\ p = 0
    /\ checked = {}
    /\ frames = <<>>
    /\ prog = NoCalls
    /\ active = "R"
    /\ parked = NoRun
    /\ ref = <<>>

\* The frames of the loop body, each from the locals it is drawn from.
\* Mutant of CheckingFrame: the progress already counts the index.
CheckingFrame_Counted(ii, ff, chk) ==
    Frame(Status("Checking index {i}...", <<ii>>),
          <<draw_frame(arr, ii, NoIndex, chk, ApproachGlow(ff, frames_per_step))>>,
          format_steps(2), progress_html(ii + 1, n))

CheckingFrame(ii, ff, chk) ==
    Frame(Status("Checking index {i}...", <<ii>>),
          <<draw_frame(arr, ii, NoIndex, chk, ApproachGlow(ff, frames_per_step))>>,
          format_steps(2), progress_html(ii, n))

\* Mutant of ComparingFrame: checked.add(i) moved before the comparison frame.
ComparingFrame_AddFirst ==
    Frame(Status("Comparing {val} with {target}...", <<arr[i + 1], target>>),
          <<draw_frame(arr, i, NoIndex, checked \cup {i}, Frac(8, 10))>>,
          format_steps(2), progress_html(i + 1, n))

ComparingFrame ==
    Frame(Status("Comparing {val} with {target}...", <<arr[i + 1], target>>),
          <<draw_frame(arr, i, NoIndex, checked, Frac(8, 10))>>,
          format_steps(2), progress_html(i + 1, n))

\* Mutant of FoundFrame: the pulse frames keep the Compare step label.
FoundFrame_Mut(pp, chk) ==
    Frame(Status("FOUND {target} at index {i}!,", <<target, i>>),
          <<draw_frame(arr, i, i, chk, Pulse(pp))>>,
          format_steps(2), progress_html(n, n))

\* Mutant of FoundFrame: the progress of the approach, progress_html(i, n).
FoundFrame_Stale(pp, chk) ==
    Frame(Status("FOUND {target} at index {i}!,", <<target, i>>),
          <<draw_frame(arr, i, i, chk, Pulse(pp))>>,
          format_steps(3), progress_html(i, n))

FoundFrame(pp, chk) ==
    Frame(Status("FOUND {target} at index {i}!,", <<target, i>>),
          <<draw_frame(arr, i, i, chk, Pulse(pp))>>,
          format_steps(3), progress_html(n, n))

\* Mutant of NextFrame: the frame is drawn for the index moved to.
NextFrame_Moved(chk) ==
    Frame(Status("No match, moving to index {i+1}", <<i + 1>>),
          <<draw_frame(arr, i + 1, NoIndex, chk, Frac(2, 10))>>,
          format_steps(4), progress_html(i + 1, n))

NextFrame(chk) ==
    Frame(Status("No match, moving to index {i+1}", <<i + 1>>),
          <<draw_frame(arr, i, NoIndex, chk, Frac(2, 10))>>,
          format_steps(4), progress_html(i + 1, n))

EndFrame ==
    Frame(Status("End of search.", <<>>),
          <<draw_frame(arr, NoIndex, NoIndex, checked, Frac(0, 1))>>,
          format_steps(5), progress_html(n, n))

\* The frames of the validation and of the start, drawn before n is set.
InvalidFrame ==
    Frame(Status("Invalid list!", <<>>), <<>>,
          format_steps(0), progress_html(0, 1))

\* Mutant of PickFrame: the progress of a finished search.
PickFrame_FullProgress ==
    Frame(Status("Pick a target number.", <<>>), <<>>,
          format_steps(0), progress_html(Len(arr), Len(arr)))

PickFrame ==
    Frame(Status("Pick a target number.", <<>>), <<>>,
          format_steps(0), progress_html(0, Len(arr)))

NotInListFrame ==
    Frame(Status("{target} is NOT in the list.", <<target>>), <<>>,
          format_steps(0), progress_html(0, Len(arr)))

\* Mutant of StartFrame: the start frame already points at index 0.
StartFrame_AtZero ==
    Frame(Status("Starting search...", <<>>),
          <<draw_frame(arr, 0, NoIndex, {}, Frac(0, 1))>>,
          format_steps(1), progress_html(0, Len(arr)))

StartFrame ==
    Frame(Status("Starting search...", <<>>),
          <<draw_frame(arr, NoIndex, NoIndex, {}, Frac(0, 1))>>,
          format_steps(1), progress_html(0, Len(arr)))

\* ----------------------------------------------------------------- actions

\* Mutant of Validate: "checked = set()" is missing from the function, so
\* the set is whatever the last run left.
Validate_NoReset ==
    /\ pc = "begin"
    /\ IF ~parses
       THEN /\ Yield(InvalidFrame)
            /\ pc' = "y_error"
            /\ UNCHANGED <<n, frames_per_step>>
       ELSE IF target = None
       THEN /\ Yield(PickFrame)
            /\ pc' = "y_error"
            /\ UNCHANGED <<n, frames_per_step>>
       ELSE IF ~Contains(arr, target)
       THEN /\ Yield(NotInListFrame)
            /\ pc' = "y_error"
            /\ UNCHANGED <<n, frames_per_step>>
       ELSE /\ n' = Len(arr)
            /\ frames_per_step' = FramesPerStep(speed)
            /\ Yield(StartFrame)
            /\ pc' = "y_start"
    /\ UNCHANGED <<parses, arr, target, speed, i, f, p, checked>>

\* First resumption: validation, the locals (n = len(arr), checked = set(),
\* frames_per_step), and the first yield.
Validate ==
    /\ pc = "begin"
    /\ IF ~parses
       THEN /\ Yield(InvalidFrame)
            /\ pc' = "y_error"
            /\ UNCHANGED <<n, frames_per_step, checked>>
       ELSE IF target = None
       THEN /\ Yield(PickFrame)
            /\ pc' = "y_error"
            /\ UNCHANGED <<n, frames_per_step, checked>>
       ELSE IF ~Contains(arr, target)
       THEN /\ Yield(NotInListFrame)
            /\ pc' = "y_error"
            /\ UNCHANGED <<n, frames_per_step, checked>>
       ELSE /\ n' = Len(arr)
            /\ checked' = {}
            /\ frames_per_step' = FramesPerStep(speed)
            /\ Yield(StartFrame)
            /\ pc' = "y_start"
    /\ UNCHANGED <<parses, arr, target, speed, i, f, p>>

\* Resumed after the Start frame: the outer loop begins.
ResumeStart ==
    /\ pc = "y_start"
    /\ IF n = 0
       THEN /\ Yield(EndFrame)
            /\ pc' = "y_end"
       ELSE /\ Yield(CheckingFrame(0, 0, checked))
            /\ pc' = "y_check"
    /\ i' = 0
    /\ f' = 0
    /\ UNCHANGED <<parses, arr, target, speed, n, frames_per_step, p, checked>>

\* Mutant of ResumeCheck: the approach loop runs once too often.
ResumeCheck_OffByOne ==
    /\ pc = "y_check"
    /\ IF f + 1 <= frames_per_step
       THEN /\ f' = f + 1
            /\ Yield(CheckingFrame(i, f + 1, checked))
            /\ pc' = "y_check"
       ELSE /\ f' = f
            /\ Yield(ComparingFrame)
            /\ pc' = "y_compare"
    /\ UNCHANGED <<parses, arr, target, speed, n, frames_per_step, i, p, checked>>

\* Resumed after an approach frame: the next one, or the comparison frame.
ResumeCheck ==
    /\ pc = "y_check"
    /\ IF f + 1 < frames_per_step
       THEN /\ f' = f + 1
            /\ Yield(CheckingFrame(i, f + 1, checked))
            /\ pc' = "y_check"
       ELSE /\ f' = f
            /\ Yield(ComparingFrame)
            /\ pc' = "y_compare"
    /\ UNCHANGED <<parses, arr, target, speed, n, frames_per_step, i, p, checked>>

\* Resumed after the comparison frame: checked.add(i), then the test.
ResumeCompare ==
    /\ pc = "y_compare"
    /\ checked' = AddChecked(checked, i)
    /\ IF Matches(arr[i + 1], target)
       THEN /\ p' = 0
            /\ Yield(FoundFrame(0, checked'))
            /\ pc' = "y_found"
       ELSE /\ p' = p
            /\ Yield(NextFrame(checked'))
            /\ pc' = "y_next"
    /\ UNCHANGED <<parses, arr, target, speed, n, frames_per_step, i, f>>

\* Mutant of ResumeFound: the "return" after the pulses is missing, so the
\* body falls through to the "No match" frame and the loop goes on.
ResumeFound_NoReturn ==
    /\ pc = "y_found"
    /\ IF p + 1 < NumPulses
       THEN /\ p' = p + 1
            /\ Yield(FoundFrame(p + 1, checked))
            /\ pc' = "y_found"
       ELSE /\ p' = p
            /\ Yield(NextFrame(checked))
            /\ pc' = "y_next"
    /\ UNCHANGED <<parses, arr, target, speed, n, frames_per_step, i, f, checked>>

\* Resumed after a 'found' pulse: the next pulse, or return.
ResumeFound ==
    /\ pc = "y_found"
    /\ IF p + 1 < NumPulses
       THEN /\ p' = p + 1
            /\ Yield(FoundFrame(p + 1, checked))
            /\ pc' = "y_found"
       ELSE /\ p' = p
            /\ frames' = frames
            /\ pc' = "done"
    /\ UNCHANGED <<parses, arr, target, speed, n, frames_per_step, i, f, checked>>

\* Resumed after the "No match" frame: the next index, or the End frame.
ResumeNext ==
    /\ pc = "y_next"
    /\ IF i + 1 < n
       THEN /\ i' = i + 1
            /\ f' = 0
            /\ Yield(CheckingFrame(i + 1, 0, checked))
            /\ pc' = "y_check"
       ELSE /\ i' = i
            /\ f' = f
            /\ Yield(EndFrame)
            /\ pc' = "y_end"
    /\ UNCHANGED <<parses, arr, target, speed, n, frames_per_step, p, checked>>

\* Resumed after a validation frame or the End frame: the generator returns.
ResumeReturn ==
    /\ pc \in {"y_error", "y_end"}
    /\ pc' = "done"
    /\ UNCHANGED <<parses, arr, target, speed, n, frames_per_step, i, f, p, checked, frames>>

\* One next() on the generator.
linear_search_animated ==
    \/ Validate
    \/ ResumeStart
    \/ ResumeCheck
    \/ ResumeCompare
    \/ ResumeFound
    \/ ResumeNext
    \/ ResumeReturn

\* The host pulls the generator: one of the resumptions above, and nothing
\* else of the host changes.
Next ==
    \/ Validate /\ UNCHANGED host
    \/ ResumeStart /\ UNCHANGED host
    \/ ResumeCheck /\ UNCHANGED host
    \/ ResumeCompare /\ UNCHANGED host
    \/ ResumeFound /\ UNCHANGED host
    \/ ResumeNext /\ UNCHANGED host
    \/ ResumeReturn /\ UNCHANGED host

Spec == Init /\ [][Next]_vars

\* ------------------------------------------------------- several generators
\* The host calls linear_search_animated again: every call makes a generator
\* with its own arguments and locals.  One run is pulled alone to its end;
\* then two more calls are made, A with the same arguments and B with the
\* list reversed, and the host pulls the two in any order, or stops pulling.
\* A new generator's locals are unbound until the code assigns them: the
\* model leaves in them what the last run left, so that a local read before
\* it is assigned would show in the frames.

\* The lists, targets and speeds of the runs that are pulled together.
PairLists == UNION {[1..k -> 1..(MaxVal - 1)] : k \in 0..(MaxLen - 1)}

PairTargets == (1..(MaxVal - 1)) \cup {None}

PairSpeeds == (MaxSpeed - 1)..MaxSpeed

Reverse(s) == [k \in 1..Len(s) |-> s[Len(s) + 1 - k]]

\* The generator being pulled, as one value.
Ctx ==
    [parses |-> parses, arr |-> arr, target |-> target, speed |-> speed,
     pc |-> pc, n |-> n, frames_per_step |-> frames_per_step,
     i |-> i, f |-> f, p |-> p, checked |-> checked, frames |-> frames]

\* A generator just made by a call on list a: not started, nothing yielded.
Fresh(a) == [Ctx EXCEPT !.arr = a, !.pc = "begin", !.frames = <<>>]

\* The host turns to generator c.
Load(c) ==
    /\ parses' = c.parses
    /\ arr' = c.arr
    /\ target' = c.target
    /\ speed' = c.speed
    /\ pc' = c.pc
    /\ n' = c.n
    /\ frames_per_step' = c.frames_per_step
    /\ i' = c.i
    /\ f' = c.f
    /\ p' = c.p
    /\ checked' = c.checked
    /\ frames' = c.frames

PairInit ==
    /\ Init
    /\ arr \in PairLists
    /\ target \in PairTargets
    /\ speed \in PairSpeeds

\* The run pulled alone has returned: its frames are kept, and the host
\* makes the generators A and B.
Fork ==
    /\ active = "R"
    /\ pc = "done"
    /\ ref' = frames
    /\ active' = "A"
    /\ parked' = Fresh(Reverse(arr))
    /\ Load(Fresh(arr))
    /\ UNCHANGED prog

\* Mutant of Switch: "checked" is one module-level set that all runs use.
Switch_SharedChecked ==
    /\ active \in {"A", "B"}
    /\ active' = (IF active = "A" THEN "B" ELSE "A")
    /\ parked' = Ctx
    /\ parses' = parked.parses
    /\ arr' = parked.arr
    /\ target' = parked.target
    /\ speed' = parked.speed
    /\ pc' = parked.pc
    /\ n' = parked.n
    /\ frames_per_step' = parked.frames_per_step
    /\ i' = parked.i
    /\ f' = parked.f
    /\ p' = parked.p
    /\ checked' = checked
    /\ frames' = parked.frames
    /\ UNCHANGED <<prog, ref>>

\* The host leaves the generator it was pulling suspended and turns to the
\* other one.
Switch ==
    /\ active \in {"A", "B"}
    /\ active' = (IF active = "A" THEN "B" ELSE "A")
    /\ parked' = Ctx
    /\ Load(parked)
    /\ UNCHANGED <<prog, ref>>

PairNext ==
    \/ Next
    \/ Fork
    \/ Switch

PairSpec == PairInit /\ [][PairNext]_vars

\* ------------------------------------------------ progress_html on its own
\* progress_html called for done = 0, 1, ..., total with one total.
ProgressInit ==
    /\ prog \in [total : 0..ProgMax, calls : {<<>>}]
    /\ parses = FALSE
    /\ arr = <<>>
    /\ target = None
    /\ speed = MinSpeed
    /\ pc = "begin"
    /\ n = 0
    /\ frames_per_step = 0
    /\ i = 0
    /\ f = 0
    /\ p = 0
    /\ checked = {}
    /\ frames = <<>>
    /\ active = "R"
    /\ parked = NoRun
    /\ ref = <<>>

CallProgress ==
    /\ Len(prog.calls) <= prog.total
    /\ prog' = [prog EXCEPT !.calls = Append(@, progress_html(Len(@), prog.total))]
    /\ UNCHANGED <<gen, active, parked, ref>>

ProgressNext == CallProgress

ProgressSpec == ProgressInit /\ [][ProgressNext]_vars

\* ------------------------------------------------------------------ claims
\* The claims read the inputs and the yielded frames only.

\* The target is supplied and occurs in the list.
TargetPresent == parses /\ target # 0 /\ \E k \in 1..Len(arr) : arr[k] = target

\* The target is supplied and does not occur in the list.
TargetAbsent == parses /\ target # 0 /\ \A k \in 1..Len(arr) : arr[k] # target

\* Step line k (1 Start, 2 Compare, 3 Found, 4 Advance, 5 End) is the one
\* highlighted in frame fr.
StepIs(fr, k) == \A j \in 1..5 : (fr.steps[j] = "active") <=> (j = k)

\* No step line is highlighted in frame fr.
NoStep(fr) == \A j \in 1..5 : fr.steps[j] # "active"

HasImage(fr) == fr.img # <<>>

CurrentOf(fr) == fr.img[1].current_index

FoundOf(fr) == fr.img[1].found_index

CheckedOf(fr) == fr.img[1].checked_indices

LastFrame == frames[Len(frames)]

\* The frames (by position) that carry step label k.
FramesWithStep(k) == {m \in 1..Len(frames) : StepIs(frames[m], k)}

\* C1: with the target in the list, the run is a finite frame sequence (it
\* can always take its next step until it has returned, and never holds more
\* than 1 + 14 * len(arr) + 6 frames), its last frame has step Found, and
\* every frame that carries a found index k has arr[k] = target.
C1_PresentRunEndsFound ==
    TargetPresent =>
        /\ Len(frames) <= 1 + 14 * Len(arr) + 6
        /\ (pc # "done" => ENABLED Next)
        /\ (pc = "done" => Len(frames) > 0 /\ StepIs(LastFrame, 3))
        /\ \A m \in 1..Len(frames) :
              (HasImage(frames[m]) /\ FoundOf(frames[m]) # -1) =>
                  /\ FoundOf(frames[m]) \in 0..(Len(arr) - 1)
                  /\ arr[FoundOf(frames[m]) + 1] = target

\* C1 witness: a finished run that found the target past index 0.
C1_Witness ==
    /\ TargetPresent
    /\ pc = "done"
    /\ Len(arr) >= 2
    /\ StepIs(LastFrame, 3)
    /\ FoundOf(LastFrame) >= 1

\* C2 as stated: in a finished run with the target in the list exactly one
\* frame carries the step label Found, for an index holding the target, and
\* it is the last frame.
C2_Original ==
    (TargetPresent /\ pc = "done") =>
        /\ Cardinality(FramesWithStep(3)) = 1
        /\ \A m \in FramesWithStep(3) :
              /\ m = Len(frames)
              /\ arr[FoundOf(frames[m]) + 1] = target

\* C2 amended: with the target in the list the Found step is emitted for
\* exactly one index: every frame that carries the label Found is drawn for
\* the same index i with arr[i] = target, the Found frames are the 6 pulse
\* frames of i, and only Found frames follow a Found frame (none once the
\* run has returned).
C2_FoundOneIndex ==
    TargetPresent =>
        /\ \A m \in FramesWithStep(3) :
              /\ HasImage(frames[m])
              /\ CurrentOf(frames[m]) \in 0..(Len(arr) - 1)
              /\ arr[CurrentOf(frames[m]) + 1] = target
              /\ \A q \in m..Len(frames) :
                    /\ StepIs(frames[q], 3)
                    /\ CurrentOf(frames[q]) = CurrentOf(frames[m])
        /\ Cardinality(FramesWithStep(3)) <= 6
        /\ (pc = "done" => Cardinality(FramesWithStep(3)) = 6)

\* C2 witness: a finished run whose Found frames came after an Advance frame.
C2_Witness ==
    /\ TargetPresent
    /\ pc = "done"
    /\ Cardinality(FramesWithStep(3)) = 6
    /\ FramesWithStep(4) # {}

\* C3: with a supplied target that does not occur in the list (the empty
\* list included) the run yields exactly one frame and then returns: status
\* "<T> is NOT in the list.", progress 0, no step highlighted, no picture,
\* and so no Start or Compare frame.
C3_AbsentOneFrame ==
    TargetAbsent =>
        /\ pc \in {"begin", "y_error", "done"}
        /\ (pc = "begin" => frames = <<>> /\ ENABLED Next)
        /\ (pc = "y_error" => ENABLED Next)
        /\ (pc # "begin" =>
              /\ Len(frames) = 1
              /\ frames[1].status =
                    [fmt |-> "{target} is NOT in the list.", args |-> <<target>>]
              /\ frames[1].progress.pct = 0
              /\ NoStep(frames[1])
              /\ ~HasImage(frames[1]))

\* C3 witness: a returned run over a non-empty list without the target.
C3_Witness ==
    /\ TargetAbsent
    /\ Len(arr) >= 2
    /\ pc = "done"
    /\ Len(frames) = 1

\* The first index (0-based) that holds the target, when it is present.
FirstMatch ==
    CHOOSE k \in 0..(Len(arr) - 1) :
        /\ arr[k + 1] = target
        /\ \A j \in 0..(k - 1) : arr[j + 1] # target

\* C4 as stated: in every frame the current index is not in the frame's
\* checked set.
C4_Original ==
    \A m \in 1..Len(frames) :
        (HasImage(frames[m]) /\ CurrentOf(frames[m]) # -1) =>
            CurrentOf(frames[m]) \notin CheckedOf(frames[m])

\* C4 amended: in every frame with step Compare (the approach frames and the
\* comparison frame) the current index is not in the frame's checked set; an
\* index enters the checked set right after its comparison frame, so the
\* Advance and Found frames are drawn with the current index in the checked
\* set.
C4_CurrentUncheckedWhileCompared ==
    \A m \in 1..Len(frames) :
        (HasImage(frames[m]) /\ CurrentOf(frames[m]) # -1) =>
            /\ StepIs(frames[m], 2) \/ StepIs(frames[m], 3) \/ StepIs(frames[m], 4)
            /\ StepIs(frames[m], 2) =>
                  CurrentOf(frames[m]) \notin CheckedOf(frames[m])
            /\ (StepIs(frames[m], 3) \/ StepIs(frames[m], 4)) =>
                  CurrentOf(frames[m]) \in CheckedOf(frames[m])

\* C4 witness: a comparison frame drawn over a non-empty checked set, after
\* an Advance frame.
C4_Witness ==
    /\ pc = "y_compare"
    /\ FramesWithStep(4) # {}
    /\ StepIs(LastFrame, 2)
    /\ CheckedOf(LastFrame) # {}
    /\ CurrentOf(LastFrame) \notin CheckedOf(LastFrame)

\* C5: the checked set is empty in the Start frame, and of two consecutive
\* frames the earlier one's checked set is a subset of the later one's.
C5_CheckedAppendOnly ==
    /\ \A m \in 1..Len(frames) :
          (HasImage(frames[m]) /\ StepIs(frames[m], 1)) => CheckedOf(frames[m]) = {}
    /\ \A m \in 1..(Len(frames) - 1) :
          (HasImage(frames[m]) /\ HasImage(frames[m + 1])) =>
              CheckedOf(frames[m]) \subseteq CheckedOf(frames[m + 1])

\* C5 witness: a frame whose checked set has grown to two indices.
C5_Witness ==
    /\ Len(frames) >= 2
    /\ HasImage(LastFrame)
    /\ Cardinality(CheckedOf(LastFrame)) >= 2
    /\ CheckedOf(frames[1]) = {}

\* C6: in every frame whose found index is set, the found index is in the
\* frame's checked set.
C6_FoundIsChecked ==
    \A m \in 1..Len(frames) :
        (HasImage(frames[m]) /\ FoundOf(frames[m]) # -1) =>
            FoundOf(frames[m]) \in CheckedOf(frames[m])

\* C6 witness: a frame with a found index past index 0.
C6_Witness ==
    /\ Len(frames) >= 1
    /\ HasImage(LastFrame)
    /\ FoundOf(LastFrame) >= 1
    /\ FoundOf(LastFrame) \in CheckedOf(LastFrame)

\* C7: no index greater than an index that holds the target appears as the
\* current index, as the found index or in the checked set of any frame, and
\* a returned run ended on the first such index.
C7_StopsAtMatch ==
    TargetPresent =>
        /\ \A m \in 1..Len(frames) : \A j \in 0..(Len(arr) - 1) :
              (HasImage(frames[m]) /\ arr[j + 1] = target) =>
                  /\ CurrentOf(frames[m]) <= j
                  /\ FoundOf(frames[m]) <= j
                  /\ \A c \in CheckedOf(frames[m]) : c <= j
        /\ (pc = "done" => CurrentOf(LastFrame) = FirstMatch)

\* C7 witness: a returned run that matched with elements left after the match.
C7_Witness ==
    /\ TargetPresent
    /\ pc = "done"
    /\ FoundOf(LastFrame) = 0
    /\ Len(arr) >= 3

\* C8: a returned run with the target in the list ends with exactly 6
\* Found-step frames, the only ones of the run, each with current index =
\* found index = the matched index i, a checked set that contains i, and
\* progress 100.
C8_SixFoundPulses ==
    TargetPresent =>
        /\ Cardinality(FramesWithStep(3)) <= 6
        /\ (pc = "done" =>
              /\ Len(frames) >= 6
              /\ FramesWithStep(3) = (Len(frames) - 5)..Len(frames)
              /\ \A m \in (Len(frames) - 5)..Len(frames) :
                    /\ HasImage(frames[m])
                    /\ CurrentOf(frames[m]) = FirstMatch
                    /\ FoundOf(frames[m]) = FirstMatch
                    /\ FirstMatch \in CheckedOf(frames[m])
                    /\ frames[m].progress.pct = 100)

\* C8 witness: the sixth pulse of a match at the last index of a list of two
\* or more.
C8_Witness ==
    /\ TargetPresent
    /\ pc = "done"
    /\ Len(arr) >= 2
    /\ FoundOf(LastFrame) = Len(arr) - 1
    /\ Cardinality(FramesWithStep(3)) = 6

\* C9: with the target in the list the Start step is emitted exactly once,
\* as the first frame (so before any Compare frame), with current index -1,
\* found index -1, an empty checked set and progress 0.
C9_StartOnceFirst ==
    TargetPresent =>
        /\ FramesWithStep(1) \subseteq {1}
        /\ (pc # "begin" =>
              /\ Len(frames) >= 1
              /\ StepIs(frames[1], 1)
              /\ HasImage(frames[1])
              /\ CurrentOf(frames[1]) = -1
              /\ FoundOf(frames[1]) = -1
              /\ CheckedOf(frames[1]) = {}
              /\ frames[1].progress.pct = 0)

\* C9 witness: a run past its Start frame, at a Compare frame.
C9_Witness ==
    /\ TargetPresent
    /\ Len(frames) >= 2
    /\ StepIs(frames[1], 1)
    /\ StepIs(frames[2], 2)

\* C10: the Advance frames are drawn, in order, for the indices 0, 1, 2, ...,
\* each holding a value other than the target; there are never more of them
\* than the first index k that holds the target, and a returned run holds
\* exactly k of them.
C10_AdvancePerMiss ==
    TargetPresent =>
        /\ \A m \in FramesWithStep(4) :
              /\ HasImage(frames[m])
              /\ CurrentOf(frames[m]) = Cardinality({q \in FramesWithStep(4) : q < m})
              /\ arr[CurrentOf(frames[m]) + 1] # target
        /\ Cardinality(FramesWithStep(4)) <= FirstMatch
        /\ (pc = "done" => Cardinality(FramesWithStep(4)) = FirstMatch)

\* C10 witness: a returned run with two Advance frames before the match.
C10_Witness ==
    /\ TargetPresent
    /\ pc = "done"
    /\ Cardinality(FramesWithStep(4)) = 2
    /\ FirstMatch = 2

\* The approach frames ("Checking index j") yielded for index j.
ApproachFramesFor(j) ==
    {m \in 1..Len(frames) :
        frames[m].status = [fmt |-> "Checking index {i}...", args |-> <<j>>]}

\* The indices whose comparison frame is out, so whose approach is complete.
ComparedIndices ==
    {j \in 0..(Len(arr) - 1) :
        \E m \in 1..Len(frames) :
            /\ frames[m].status.fmt = "Comparing {val} with {target}..."
            /\ CurrentOf(frames[m]) = j}

\* C11 as stated: the number of approach frames of every visited index is
\* max(1, r) for an integer r nearest to 12 - (speed - 1) * 1.1 (ten times
\* that value is 120 - 11 * (speed - 1); at a tie either neighbour counts).
C11_Original ==
    \A j \in ComparedIndices :
        \E r \in 0..12 :
            /\ 2 * (10 * r - (120 - 11 * (speed - 1))) <= 10
            /\ 2 * ((120 - 11 * (speed - 1)) - 10 * r) <= 10
            /\ Cardinality(ApproachFramesFor(j)) = (IF r >= 1 THEN r ELSE 1)

\* C11 amended: the number of approach frames of every visited index is
\* max(1, int(12 - (speed - 1) * 1.1)) with int() truncating, that is
\* 12, 10, 9, 8, 7, 6, 5, 4, 3, 2 for the speeds 1..10.
C11_ApproachFramesTruncated ==
    \A j \in ComparedIndices :
        Cardinality(ApproachFramesFor(j)) = <<12, 10, 9, 8, 7, 6, 5, 4, 3, 2>>[speed]

\* C11 witness: at speed 2 the second index has had its 10 approach frames.
C11_Witness ==
    /\ speed = 2
    /\ 1 \in ComparedIndices
    /\ Cardinality(ApproachFramesFor(1)) = 10

\* The exact quotient floor(100 * done / max(1, total)).
ExactPct(done, total) == (100 * done) \div (IF total >= 1 THEN total ELSE 1)

\* C12 as stated: over the calls with one total the percentage never
\* decreases as done grows, progress(total, total) is 100, and the
\* percentage is floor(100 * done / max(1, total)).
C12_Original ==
    \A k \in 1..Len(prog.calls) :
        /\ k > 1 => prog.calls[k - 1].pct <= prog.calls[k].pct
        /\ prog.calls[k].done = prog.total => prog.calls[k].pct = 100
        /\ prog.calls[k].pct = ExactPct(prog.calls[k].done, prog.total)

\* C12 amended: over the calls with one total the percentage never decreases
\* as done grows; progress(total, total) is 100 for every total >= 1 and
\* progress(0, 0) is 0; and the percentage, int((done / max(1, total)) * 100)
\* in floating point, is floor(100 * done / max(1, total)) or, where the float
\* product falls short of it (done = 29, total = 50 gives 57), one less.
C12_ProgressMonotone ==
    \A k \in 1..Len(prog.calls) :
        /\ prog.calls[k].done = k - 1
        /\ k > 1 => prog.calls[k - 1].pct <= prog.calls[k].pct
        /\ (prog.calls[k].done = prog.total /\ prog.total >= 1) =>
              prog.calls[k].pct = 100
        /\ prog.total = 0 => prog.calls[k].pct = 0
        /\ prog.calls[k].pct <= ExactPct(prog.calls[k].done, prog.total)
        /\ prog.calls[k].pct >= ExactPct(prog.calls[k].done, prog.total) - 1
        /\ prog.total <= 40 =>
              prog.calls[k].pct = ExactPct(prog.calls[k].done, prog.total)

\* C12 witness: every done of total 50 computed, 29 of 50 giving 57.
C12_Witness ==
    /\ prog.total = 50
    /\ Len(prog.calls) = 51
    /\ prog.calls[30].pct = 57
    /\ prog.calls[51].pct = 100

\* Generator x ("A" or "B") of the runs pulled together, as one value.
RunOf(x) == IF active = x THEN Ctx ELSE parked

IsPrefix(s, t) == Len(s) <= Len(t) /\ \A k \in 1..Len(s) : s[k] = t[k]

\* C13: a second run with the same (list, target, speed), pulled after the
\* first has returned and with no other generator pulled, yields frame by
\* frame what the first yielded (status, indices, checked set, intensity,
\* step, progress), and, once returned, the same number of frames.
C13_SameInputsSameFrames ==
    (active = "A" /\ parked.pc = "begin") =>
        /\ IsPrefix(frames, ref)
        /\ (pc = "done" => frames = ref)

\* C13 witness: the second run has returned after a search that advanced
\* and found.
C13_Witness ==
    /\ active = "A"
    /\ parked.pc = "begin"
    /\ pc = "done"
    /\ frames = ref
    /\ Len(frames) >= 10
    /\ \E m \in 1..Len(frames) : frames[m].steps[4] = "active"

\* What a pull must leave alone in the generator that is not pulled, and
\* what a change of generator must leave alone in both.
OwnStepsOnly ==
    (active # "R" /\ active' # "R") =>
        /\ (active' = active => parked' = parked)
        /\ (active' # active =>
              /\ RunOf("A")' = RunOf("A")
              /\ RunOf("B")' = RunOf("B"))

\* The frames of A, and of B when its list is the same, are those of the run
\* pulled alone, as far as the generator has been pulled.
FramesAsAlone ==
    active # "R" =>
        /\ IsPrefix(RunOf("A").frames, ref)
        /\ (RunOf("A").pc = "done" => RunOf("A").frames = ref)
        /\ (RunOf("B").arr = RunOf("A").arr =>
              /\ IsPrefix(RunOf("B").frames, ref)
              /\ (RunOf("B").pc = "done" => RunOf("B").frames = ref))

\* C14: with two generators pulled in any order (or one of them left
\* suspended for good), each yields the frames it yields when pulled alone,
\* and the arguments, locals (checked set, loop index) and frames of a
\* generator change only in its own pulls.
C14_RunsShareNothing == [](FramesAsAlone) /\ [][OwnStepsOnly]_vars

\* C14 witness: A has returned with the frames of the run pulled alone while
\* B, on another list, is suspended in its loop at another index.
C14_Witness ==
    /\ active = "A"
    /\ pc = "done"
    /\ frames = ref
    /\ parked.pc = "y_check"
    /\ parked.arr # arr
    /\ parked.checked # {}
    /\ parked.i # i

\* No target is supplied and the list text parses.
TargetMissing == parses /\ target = 0

\* C15: with no target supplied and a well-formed list, empty or not, the
\* run yields exactly one frame, status "Pick a target number.", no step
\* highlighted, progress 0, no picture, and then returns: no index is visited.
C15_MissingTargetOneFrame ==
    TargetMissing =>
        /\ pc \in {"begin", "y_error", "done"}
        /\ (pc = "begin" => frames = <<>> /\ ENABLED Next)
        /\ (pc = "y_error" => ENABLED Next)
        /\ (pc # "begin" =>
              /\ Len(frames) = 1
              /\ frames[1].status = [fmt |-> "Pick a target number.", args |-> <<>>]
              /\ frames[1].progress.pct = 0
              /\ NoStep(frames[1])
              /\ ~HasImage(frames[1]))
        /\ checked = {}

\* C15 witness: a returned run with no target over a non-empty list.
C15_Witness ==
    /\ TargetMissing
    /\ Len(arr) >= 1
    /\ pc = "done"
    /\ Len(frames) = 1
    /\ frames[1].status.fmt = "Pick a target number."

\* C16: a run yields at most one End frame, and only as the last frame of a
\* loop that visited every index without a match, with current index -1,
\* every index in the checked set and progress 100; no run with the target
\* in the list yields one.  Validation lets only lists with the target into
\* the loop, so no reachable run exhausts it; what the code would yield
\* there is read off the locals of a loop that has visited every index.
C16_EndOnlyOnExhaustion ==
    /\ Cardinality(FramesWithStep(5)) <= 1
    /\ \A m \in FramesWithStep(5) :
          /\ m = Len(frames)
          /\ HasImage(frames[m])
          /\ CurrentOf(frames[m]) = -1
          /\ FoundOf(frames[m]) = -1
          /\ CheckedOf(frames[m]) = 0..(Len(arr) - 1)
          /\ frames[m].progress.pct = 100
          /\ \A k \in 1..Len(arr) : arr[k] # target
    /\ TargetPresent => FramesWithStep(5) = {}
    /\ (TargetPresent /\ pc = "done" /\ FirstMatch = Len(arr) - 1) =>
          /\ StepIs(EndFrame, 5)
          /\ CurrentOf(EndFrame) = -1
          /\ FoundOf(EndFrame) = -1
          /\ CheckedOf(EndFrame) = 0..(Len(arr) - 1)
          /\ EndFrame.progress.pct = 100

\* C16 witness: a returned run that visited every index, matched at the
\* last one and yielded no End frame.
C16_Witness ==
    /\ TargetPresent
    /\ pc = "done"
    /\ Len(arr) >= 2
    /\ FirstMatch = Len(arr) - 1
    /\ checked = 0..(Len(arr) - 1)
    /\ FramesWithStep(5) = {}

\* The kind of frame m, by the format of its status.
KindOf(m) == frames[m].status.fmt

\* C17: the frames of a visited index i come in a fixed order.  An approach
\* frame (step Compare, current index i, status "Checking index i",
\* progress from i, checked set {0..i-1}) follows the Start frame (i = 0),
\* another approach frame of i, or the Advance frame of i - 1; the single
\* comparison frame of i (step Compare, current index i, the value and the
\* target in its status, progress from i + 1, checked set still {0..i-1})
\* follows an approach frame of i; a Found frame or the Advance frame of i
\* follows the comparison frame of i (a Found frame also a Found frame) and
\* is drawn with i in the checked set.
C17_FramesOfAnIndexInOrder ==
    TargetPresent =>
        \A m \in 2..Len(frames) :
            LET fr == frames[m]
                pr == frames[m - 1]
                c  == CurrentOf(fr)
            IN  /\ HasImage(fr)
                /\ c \in 0..(Len(arr) - 1)
                /\ KindOf(m) \in {"Checking index {i}...",
                                  "Comparing {val} with {target}...",
                                  "FOUND {target} at index {i}!,",
                                  "No match, moving to index {i+1}"}
                /\ KindOf(m) = "Checking index {i}..." =>
                      /\ StepIs(fr, 2)
                      /\ fr.status.args = <<c>>
                      /\ fr.progress.done = c
                      /\ fr.progress.total = Len(arr)
                      /\ fr.progress.pct = (100 * c) \div Len(arr)
                      /\ CheckedOf(fr) = 0..(c - 1)
                      /\ \/ m = 2 /\ c = 0
                         \/ KindOf(m - 1) = "Checking index {i}..." /\ CurrentOf(pr) = c
                         \/ /\ KindOf(m - 1) = "No match, moving to index {i+1}"
                            /\ CurrentOf(pr) = c - 1
                /\ KindOf(m) = "Comparing {val} with {target}..." =>
                      /\ StepIs(fr, 2)
                      /\ fr.status.args = <<arr[c + 1], target>>
                      /\ fr.progress.done = c + 1
                      /\ fr.progress.total = Len(arr)
                      /\ fr.progress.pct = (100 * (c + 1)) \div Len(arr)
                      /\ CheckedOf(fr) = 0..(c - 1)
                      /\ KindOf(m - 1) = "Checking index {i}..."
                      /\ CurrentOf(pr) = c
                /\ KindOf(m) = "FOUND {target} at index {i}!," =>
                      /\ StepIs(fr, 3)
                      /\ CheckedOf(fr) = 0..c
                      /\ CurrentOf(pr) = c
                      /\ KindOf(m - 1) \in {"Comparing {val} with {target}...",
                                            "FOUND {target} at index {i}!,"}
                /\ KindOf(m) = "No match, moving to index {i+1}" =>
                      /\ StepIs(fr, 4)
                      /\ CheckedOf(fr) = 0..c
                      /\ CurrentOf(pr) = c
                      /\ KindOf(m - 1) = "Comparing {val} with {target}..."

\* C17 witness: the approach, comparison and Advance frames of index 0, then
\* the approach, comparison and a Found frame of index 1.
C17_Witness ==
    /\ TargetPresent
    /\ Len(frames) >= 7
    /\ KindOf(Len(frames)) = "FOUND {target} at index {i}!,"
    /\ KindOf(Len(frames) - 1) = "Comparing {val} with {target}..."
    /\ CurrentOf(LastFrame) = 1
    /\ \E m \in 2..Len(frames) :
          /\ KindOf(m) = "No match, moving to index {i+1}"
          /\ KindOf(m + 1) = "Checking index {i}..."

\* C18: in every run the progress percentage of every frame lies in 0..100
\* and is never less than that of the frame before; it is 0 in the Start
\* frame, and 100 in the last frame of a returned run with the target in
\* the list.
C18_ProgressNeverDecreases ==
    /\ \A m \in 1..Len(frames) :
          /\ frames[m].progress.pct \in 0..100
          /\ m > 1 => frames[m - 1].progress.pct <= frames[m].progress.pct
          /\ StepIs(frames[m], 1) => frames[m].progress.pct = 0
    /\ (TargetPresent /\ pc = "done") => LastFrame.progress.pct = 100

\* C18 witness: a returned run whose progress rose from 0 through 33 and 66
\* to 100.
C18_Witness ==
    /\ TargetPresent
    /\ pc = "done"
    /\ frames[1].progress.pct = 0
    /\ LastFrame.progress.pct = 100
    /\ \E m \in 1..Len(frames) : frames[m].progress.pct = 33
    /\ \E m \in 1..Len(frames) : frames[m].progress.pct = 66

\* C19: in a list that may hold the target more than once the found index
\* of every Found frame is the smallest index k that holds the target; every
\* visited index has F = frames_per_step approach frames, and the returned
\* run holds exactly 1 + (k + 1) * (F + 1) + k + 6 frames.
C19_FirstMatchAndFrameCount ==
    TargetPresent =>
        /\ \A m \in 1..Len(frames) :
              (HasImage(frames[m]) /\ FoundOf(frames[m]) # -1) =>
                  FoundOf(frames[m]) = FirstMatch
        /\ \A j \in ComparedIndices :
              Cardinality(ApproachFramesFor(j)) = frames_per_step
        /\ pc = "done" =>
              Len(frames) =
                  1 + (FirstMatch + 1) * (frames_per_step + 1) + FirstMatch + 6

\* C19 witness: a returned run over a list that holds the target twice, the
\* first time at index 1.
C19_Witness ==
    /\ TargetPresent
    /\ pc = "done"
    /\ Len(arr) = 3
    /\ arr[2] = target
    /\ arr[3] = target
    /\ arr[1] # target
    /\ FoundOf(LastFrame) = 1

\* C20: every Advance frame names an index of the list: its status names
\* the index after its current index, and that index is less than len(arr).
C20_AdvanceNamesExistingIndex ==
    \A m \in 1..Len(frames) :
        (frames[m].status.fmt = "No match, moving to index {i+1}") =>
            /\ frames[m].status.args = <<CurrentOf(frames[m]) + 1>>
            /\ frames[m].status.args[1] < Len(arr)

\* C20 witness: an Advance frame that names the last index of the list.
C20_Witness ==
    /\ Len(frames) >= 1
    /\ Len(arr) >= 3
    /\ LastFrame.status = [fmt |-> "No match, moving to index {i+1}",
                           args |-> <<Len(arr) - 1>>]

====
